---- MODULE Spec2Model ----
(***************************************************************************)
(* IMDS token middleware (aws-config, imds/client/token.rs): concurrent    *)
(* callers of TokenMiddleware::apply / add_token sharing one               *)
(* ExpiringCache<Token, ImdsError>, the token PUT issued by get_token, and *)
(* GetTokenResponseHandler::parse.  Time is in seconds.                    *)
(* TestConnection (aws-hyper, test_connection.rs): the replaying connector *)
(* and its clones.                                                         *)
(***************************************************************************)
EXTENDS Integers, Sequences, FiniteSets, TLC

\* ---------------------------------------------------------------- bounds
NCallers == 2
MaxTime == 120
TickSeconds == 60
MaxCalls == 2
NClones == 2
MaxEvents == 2
MaxConnCalls == 3

\* ------------------------------------------------------ program constants
TOKEN_REFRESH_BUFFER == 120

X_AWS_EC2_METADATA_TOKEN_TTL_SECONDS == "x-aws-ec2-metadata-token-ttl-seconds"

X_AWS_EC2_METADATA_TOKEN == "x-aws-ec2-metadata-token"

\* ------------------------------------------------------------ Option<T>
None == <<>>

Some(x) == <<x>>

Callers == 1..NCallers

\* ------------------------------------------------- requests and responses
\* Bytes are integers 0..255; header values and bodies are byte sequences.
HeaderNames == {X_AWS_EC2_METADATA_TOKEN, "user-agent"}

NoHeaders == [n \in HeaderNames |-> None]

\* Outbound operation requests handed to apply (method, uri, body, headers).
Requests ==
    { [method |-> "GET", uri |-> "/latest/meta-data", body |-> <<>>,
       headers |-> NoHeaders],
      [method |-> "GET", uri |-> "/latest/user-data", body |-> <<120>>,
       headers |-> [NoHeaders EXCEPT ![X_AWS_EC2_METADATA_TOKEN] = Some(<<111>>),
                                     !["user-agent"] = Some(<<117>>)]] }

\* Bodies of token responses: "a", "b", and a body holding a line feed.
Bodies == { <<97>>, <<98>>, <<10>> }

\* u64::MAX in decimal, "18446744073709551615".
U64_MAX ==
    <<49, 56, 52, 52, 54, 55, 52, 52, 48, 55, 51, 55, 48, 57, 53, 53, 49, 54, 49, 53>>

\* u64::MAX + 1 in decimal, "18446744073709551616".
U64_MAX_PLUS_1 ==
    <<49, 56, 52, 52, 54, 55, 52, 52, 48, 55, 51, 55, 48, 57, 53, 53, 49, 54, 49, 54>>

\* Values of the TTL response header: "0", "60", "180", "x", a non-ASCII byte,
\* the largest u64, and the number after it.
TtlHeaders ==
    { <<48>>, <<54, 48>>, <<49, 56, 48>>, <<120>>, <<200>>,
      U64_MAX, U64_MAX_PLUS_1 }

Statuses == {200, 400, 403}

\* What the transport hands back for one token PUT: a response, or a failure
\* of the connector.
Responses ==
    [status : Statuses, body : Bodies,
     ttl : {None} \cup {Some(h) : h \in TtlHeaders}]

DispatchFailure == [status |-> 0, body |-> <<>>, ttl |-> None]

Outcomes == Responses \cup {DispatchFailure}

Response(status, body, ttl) == [status |-> status, body |-> body, ttl |-> ttl]

\* The outcomes the transport produces in the concurrent specification: three
\* good tokens (TTL 60, 0 and 180), a response of each error class, and a
\* connector failure.
PutOutcomes ==
    { Response(200, <<97>>, Some(<<54, 48>>)),
      Response(200, <<98>>, Some(<<48>>)),
      Response(200, <<98>>, Some(<<49, 56, 48>>)),
      Response(400, <<97>>, Some(<<54, 48>>)),
      Response(403, <<97>>, Some(<<54, 48>>)),
      Response(200, <<10>>, Some(<<54, 48>>)),
      Response(200, <<97>>, None),
      Response(200, <<97>>, Some(<<120>>)),
      DispatchFailure }

\* ------------------------------------------------------------- Result<T,E>
Ok(v) == [ok |-> TRUE, val |-> Some(v), err |-> None]

Err(e) == [ok |-> FALSE, val |-> None, err |-> Some(e)]

\* ------------------------------------------- GetTokenResponseHandler::parse
\* http::HeaderValue::from_maybe_shared accepts bytes >= 32 except DEL, and tab.
IsValidHeaderValue(bytes) ==
    \A i \in 1..Len(bytes) :
        (bytes[i] >= 32 /\ bytes[i] # 127) \/ bytes[i] = 9

\* HeaderValue::to_str succeeds on visible ASCII (and tab) only.
ToStrOk(bytes) ==
    \A i \in 1..Len(bytes) :
        (bytes[i] >= 32 /\ bytes[i] < 127) \/ bytes[i] = 9

IsDigit(b) == b >= 48 /\ b <= 57

RECURSIVE DigitsValue(_)
DigitsValue(s) ==
    IF Len(s) = 0 THEN 0
    ELSE 10 * DigitsValue(SubSeq(s, 1, Len(s) - 1)) + (s[Len(s)] - 48)

\* A string of decimal digits without its leading zeros ("0" stays "0").
RECURSIVE StripZeros(_)
StripZeros(d) ==
    IF Len(d) > 1 /\ d[1] = 48 THEN StripZeros(Tail(d)) ELSE d

\* a < b for two decimal strings without leading zeros.
DecLess(a, b) ==
    \/ Len(a) < Len(b)
    \/ /\ Len(a) = Len(b)
       /\ \E i \in 1..Len(a) :
             /\ a[i] < b[i]
             /\ \A j \in 1..(i - 1) : a[j] = b[j]

\* str::parse::<u64>: an optional '+', then one or more decimal digits of a
\* value up to u64::MAX; a larger value is the overflow error.  The u64 is
\* kept as its decimal digits (a 64-bit value is beyond TLC's integers).
ParseU64(s) ==
    LET d == IF Len(s) > 0 /\ s[1] = 43 THEN Tail(s) ELSE s
    IN  IF /\ Len(d) > 0
           /\ \A i \in 1..Len(d) : IsDigit(d[i])
           /\ ~DecLess(U64_MAX, StripZeros(d))
        THEN Some(StripZeros(d))
        ELSE None

\* Duration::from_secs(ttl), in seconds.  Evaluated for values of up to nine
\* digits only: larger ones that still fit the SystemTime are not among
\* TtlHeaders.
from_secs(ttl) == DigitsValue(ttl)

\* i64::MAX = 9223372036854775807, the largest tv_sec of a SystemTime, less the
\* clock reading t, in decimal.
I64_MAX_Minus(t) ==
    <<57, 50, 50, 51, 51, 55, 50, 48, 51, 54>>
      \o [i \in 1..9 |-> 48 + (((854775807 - t) \div (10 ^ (9 - i))) % 10)]

\* SystemTime + Duration panics ("overflow when adding duration to instant")
\* when the sum does not fit the SystemTime.
AddOverflows(timeNow, ttl) == DecLess(I64_MAX_Minus(timeNow), ttl)

\* The panic unwinding out of parse: neither a value nor an error.
Panic == [ok |-> FALSE, val |-> None, err |-> None]

IsPanic(r) == ~r.ok /\ r.err = None

\* parse with a missing TTL header read as a TTL of 0.
parseDefaultTtl(response, timeNow) ==
    IF response.status = 400 THEN Err("InvalidParameters")
    ELSE IF response.status = 403 THEN Err("Forbidden")
    ELSE IF ~IsValidHeaderValue(response.body) THEN Err("InvalidToken")
    ELSE IF response.ttl = None
         THEN Ok([value |-> response.body, expiry |-> timeNow])
    ELSE IF ~ToStrOk(response.ttl[1]) THEN Err("InvalidTtl")
    ELSE IF ParseU64(response.ttl[1]) = None THEN Err("InvalidTtl")
    ELSE IF AddOverflows(timeNow, ParseU64(response.ttl[1])[1]) THEN Panic
    ELSE Ok([value |-> response.body,
             expiry |-> timeNow + from_secs(ParseU64(response.ttl[1])[1])])

\* parse with the TTL taken as the expiry itself (the clock reading left out).
parseAbsoluteTtl(response, timeNow) ==
    IF response.status = 400 THEN Err("InvalidParameters")
    ELSE IF response.status = 403 THEN Err("Forbidden")
    ELSE IF ~IsValidHeaderValue(response.body) THEN Err("InvalidToken")
    ELSE IF response.ttl = None THEN Err("NoTtl")
    ELSE IF ~ToStrOk(response.ttl[1]) THEN Err("InvalidTtl")
    ELSE IF ParseU64(response.ttl[1]) = None THEN Err("InvalidTtl")
    ELSE IF AddOverflows(timeNow, ParseU64(response.ttl[1])[1]) THEN Panic
    ELSE Ok([value |-> response.body,
             expiry |-> from_secs(ParseU64(response.ttl[1])[1])])

\* parse with the TTL header value stored as the token value.
parseValueIsTtl(response, timeNow) ==
    IF response.status = 400 THEN Err("InvalidParameters")
    ELSE IF response.status = 403 THEN Err("Forbidden")
    ELSE IF ~IsValidHeaderValue(response.body) THEN Err("InvalidToken")
    ELSE IF response.ttl = None THEN Err("NoTtl")
    ELSE IF ~ToStrOk(response.ttl[1]) THEN Err("InvalidTtl")
    ELSE IF ParseU64(response.ttl[1]) = None THEN Err("InvalidTtl")
    ELSE IF AddOverflows(timeNow, ParseU64(response.ttl[1])[1]) THEN Panic
    ELSE Ok([value |-> response.ttl[1],
             expiry |-> timeNow + from_secs(ParseU64(response.ttl[1])[1])])

parse(response, timeNow) ==
    IF response.status = 400 THEN Err("InvalidParameters")
    ELSE IF response.status = 403 THEN Err("Forbidden")
    ELSE IF ~IsValidHeaderValue(response.body) THEN Err("InvalidToken")
    ELSE IF response.ttl = None THEN Err("NoTtl")
    ELSE IF ~ToStrOk(response.ttl[1]) THEN Err("InvalidTtl")
    ELSE IF ParseU64(response.ttl[1]) = None THEN Err("InvalidTtl")
    ELSE IF AddOverflows(timeNow, ParseU64(response.ttl[1])[1]) THEN Panic
    ELSE Ok([value |-> response.body,
             expiry |-> timeNow + from_secs(ParseU64(response.ttl[1])[1])])

\* -------------------------------------------------- TokenMiddleware::get_token
\* The result of client.call(operation) mapped through
\* map_err(ImdsError::FailedToLoadToken), and the (Token, expiry) pair built
\* from it.
\* TokenMiddleware.token_ttl: the TTL the middleware is configured to ask
\* for, in seconds (six hours here).  get_token sends it in the TTL header of
\* the PUT and does not use it otherwise.
token_ttl == 21600

\* get_token with the error of client.call replaced by one that does not say
\* what went wrong.
get_token_opaque(outcome, timeNow) ==
    IF outcome = DispatchFailure
    THEN Err([kind |-> "FailedToLoadToken", source |-> "DispatchFailure"])
    ELSE LET r == parse(outcome, timeNow)
         IN  IF r.ok
             THEN Ok([token |-> r.val[1], expiry |-> r.val[1].expiry])
             ELSE IF IsPanic(r) THEN Panic
             ELSE Err([kind |-> "FailedToLoadToken", source |-> "Unknown"])

\* get_token with the expiry of the pair computed from the TTL asked for.
get_token_requested(outcome, timeNow) ==
    IF outcome = DispatchFailure
    THEN Err([kind |-> "FailedToLoadToken", source |-> "DispatchFailure"])
    ELSE LET r == parse(outcome, timeNow)
         IN  IF r.ok
             THEN Ok([token |-> r.val[1],
                      expiry |-> timeNow + token_ttl])
             ELSE IF IsPanic(r) THEN Panic
             ELSE Err([kind |-> "FailedToLoadToken", source |-> r.err[1]])

get_token(outcome, timeNow) ==
    IF outcome = DispatchFailure
    THEN Err([kind |-> "FailedToLoadToken", source |-> "DispatchFailure"])
    ELSE LET r == parse(outcome, timeNow)
         IN  IF r.ok
             THEN Ok([token |-> r.val[1], expiry |-> r.val[1].expiry])
             ELSE IF IsPanic(r) THEN Panic
             ELSE Err([kind |-> "FailedToLoadToken", source |-> r.err[1]])

\* ------------------------------------------------ ExpiringCache<Token, E>
\* The single slot: None, or Some of the (value, expiry) pair a load returned.
ExpiringCacheNew == None

\* yield_or_clear_if_expired(now): the stored value while now is before its
\* expiry; from the expiry on, the slot is emptied and None is returned.
yield_or_clear_if_expired(slot, t) ==
    IF slot # None /\ t < slot[1].expiry
    THEN [ret |-> Some(slot[1].token), slot |-> slot]
    ELSE [ret |-> None, slot |-> None]

\* get_or_load(loader): what a call does on entry.  The cache has no clock:
\* a stored value is returned as it is; on an empty slot the caller attaches
\* to the load in flight, or starts the one load.
get_or_load(slot, inflight) ==
    IF slot # None THEN "hit"
    ELSE IF inflight # None THEN "attach"
    ELSE "start"

\* get_or_load when the loader returns: a success is stored as the (value,
\* expiry) pair and its value handed out; a failure is handed out and nothing
\* is stored.  The same result goes to every caller attached to the load.
get_or_load_returns(slot, loaded) ==
    IF loaded.ok
    THEN [slot |-> Some(loaded.val[1]), ret |-> Ok(loaded.val[1].token)]
    ELSE [slot |-> slot, ret |-> loaded]

\* The TTL a response declares in its header, in seconds (0 when it declares
\* none): what the history records next to the time a token was stored.
DeclaredTtl(response) ==
    IF response.ttl = None THEN 0
    ELSE IF ParseU64(response.ttl[1]) = None THEN 0
    ELSE IF Len(ParseU64(response.ttl[1])[1]) > 9 THEN 0
    ELSE from_secs(ParseU64(response.ttl[1])[1])

\* --------------------------------------------------------------- the state
VARIABLES
    clock,       \* TimeSource: seconds since the epoch
    token,       \* TokenMiddleware.token: the cache slot
    load,        \* the loader invocation in flight: None or Some(record)
    pc,          \* per caller: where its add_token future stands
    now,         \* per caller: the reading of time_source.now() at line 102
    req,         \* per caller: the request handed to apply
    res,         \* per caller: None, or Some(Result<Request, ImdsError>)
    loaderCalls, \* number of get_token invocations (token PUTs) so far
    calls,       \* number of apply calls so far
    loadsEnded,  \* history: loader invocations that returned or were dropped
    issued,      \* history: None, or Some of the load that filled the slot
    h,           \* history, per caller: facts about its current call
    data,        \* TestConnection.data: the pairs left, last one first
    requests,    \* TestConnection.requests: the ValidateRequest records
    guard,       \* the clone holding the MutexGuard of data, or 0
    inCall,      \* per clone: None, or Some of the call it is inside
    events,      \* history: the list TestConnection::new was given
    log          \* history: the calls that returned, in the order they did

tokenVars ==
    <<clock, token, load, pc, now, req, res, loaderCalls, calls, loadsEnded,
      issued, h>>

connVars == <<data, requests, guard, inCall, events, log>>

vars == <<tokenVars, connVars>>

Active(c) == pc[c] \in {"yield", "get_or_load", "waiting"}

\* src: where the call's token came from ("yield", "cached", "load");
\* loadId: the load that produced its token or error; callsAtEntry:
\* loaderCalls when it entered get_or_load; expiredId: the load whose token
\* had expired at this call's clock reading when it called
\* yield_or_clear_if_expired; overlap: another call was active during this
\* one; started: loader invocations this call started; dropped: the load it
\* waited on was dropped with its owner; got: the Token the call obtained;
\* endedAtYield: loadsEnded when it called yield_or_clear_if_expired.
NoHistory ==
    [src |-> "none", loadId |-> 0, callsAtEntry |-> 0, expiredId |-> 0,
     overlap |-> FALSE, started |-> 0, dropped |-> FALSE, got |-> None,
     endedAtYield |-> 0]

\* The request the callers of the concurrent specification hand to apply: it
\* already carries a value under the token header, and one other header.
AppliedRequests == {r \in Requests : r.headers # NoHeaders}

\* ---------------------------------------------------- TestConnection::new
Clones == 1..NClones

\* Responses a TestConnection is loaded with.
ConnResponses ==
    { Response(200, <<97>>, Some(<<54, 48>>)), Response(403, <<>>, None) }

\* ConnectVec: lists of (expected request, response) pairs.
ConnectVecs ==
    UNION { [1..n -> Requests \X ConnResponses] : n \in 0..MaxEvents }

\* Vec::reverse.
reverse(v) == [i \in 1..Len(v) |-> v[Len(v) + 1 - i]]

\* TestConnection::new(data), and the clones of that connection: they share
\* data and requests.
TestConnectionNew(v) ==
    /\ events = v
    /\ data = reverse(v)
    /\ requests = <<>>
    /\ guard = 0
    /\ inCall = [k \in Clones |-> None]
    /\ log = <<>>

InitToken ==
    /\ clock = 0
    /\ token = ExpiringCacheNew
    /\ load = None
    /\ pc = [c \in Callers |-> "idle"]
    /\ now = [c \in Callers |-> 0]
    /\ req \in [Callers -> AppliedRequests]
    /\ res = [c \in Callers |-> None]
    /\ loaderCalls = 0
    /\ calls = 0
    /\ loadsEnded = 0
    /\ issued = None
    /\ h = [c \in Callers |-> NoHistory]

\* The middleware with an empty cache; the test connection is loaded with no
\* pairs.
Init == InitToken /\ TestConnectionNew(<<>>)

\* ------------------------------------------------------------------- clock
\* The time source moves forward.
Tick ==
    /\ clock < MaxTime
    /\ clock' = clock + TickSeconds
    /\ UNCHANGED <<token, load, pc, now, req, res, loaderCalls, calls,
                   loadsEnded, issued, h>>
    /\ UNCHANGED connVars

\* ------------------------------------------------ TokenMiddleware::add_token
\* augment that leaves the header map as it was.
augmentNothing(request, value) == request

\* augment that keeps a value already present under the token header.
augmentKeepExisting(request, value) ==
    IF request.headers[X_AWS_EC2_METADATA_TOKEN] # None
    THEN request
    ELSE [request EXCEPT !.headers[X_AWS_EC2_METADATA_TOKEN] = Some(value)]

\* request.augment(..): the token value inserted under the token header,
\* replacing what was there.
augment(request, value) ==
    [request EXCEPT !.headers[X_AWS_EC2_METADATA_TOKEN] = Some(value)]

\* add_token with the error of the token result dropped: the request goes on
\* as it came.
add_token_result_swallow(request, tokenResult) ==
    IF tokenResult.ok
    THEN Ok(augment(request, tokenResult.val[1].value))
    ELSE Ok(request)

\* The match on the token result, the `?`, and the augmentation.
add_token_result(request, tokenResult) ==
    IF tokenResult.ok
    THEN Ok(augment(request, tokenResult.val[1].value))
    ELSE Err(tokenResult.err[1])

\* apply: a caller hands a request to the middleware; add_token starts and
\* reads the time source.
apply(c, r) ==
    /\ pc[c] \in {"idle", "done", "cancelled", "panicked"}
    /\ calls < MaxCalls
    /\ calls' = calls + 1
    /\ pc' = [pc EXCEPT ![c] = "yield"]
    /\ now' = [now EXCEPT ![c] = clock]
    /\ req' = [req EXCEPT ![c] = r]
    /\ res' = [res EXCEPT ![c] = None]
    /\ h' = [d \in Callers |->
               IF d = c
               THEN [NoHistory EXCEPT
                       !.overlap = \E e \in Callers \ {c} : Active(e)]
               ELSE IF Active(d) THEN [h[d] EXCEPT !.overlap = TRUE] ELSE h[d]]
    /\ UNCHANGED <<clock, token, load, loaderCalls, loadsEnded, issued>>
    /\ UNCHANGED connVars

\* self.token.yield_or_clear_if_expired(t).await and the Some arm of the
\* match, for the time t handed to the cache.
AddTokenYieldAt(c, t) ==
    /\ pc[c] = "yield"
    /\ LET y == yield_or_clear_if_expired(token, t)
           id == IF issued = None THEN 0 ELSE issued[1].id
       IN  /\ token' = y.slot
           /\ issued' = IF y.slot = None THEN None ELSE issued
           /\ IF y.ret # None
              THEN /\ pc' = [pc EXCEPT ![c] = "done"]
                   /\ res' = [res EXCEPT ![c] =
                                Some(add_token_result(req[c], Ok(y.ret[1])))]
                   /\ h' = [h EXCEPT
                              ![c].src = "yield",
                              ![c].loadId = id,
                              ![c].got = y.ret,
                              ![c].endedAtYield = loadsEnded,
                              ![c].expiredId =
                                  IF token # None /\ now[c] >= token[1].expiry
                                  THEN id ELSE 0]
              ELSE /\ pc' = [pc EXCEPT ![c] = "get_or_load"]
                   /\ res' = res
                   /\ h' = [h EXCEPT
                              ![c].endedAtYield = loadsEnded,
                              ![c].expiredId =
                                  IF token # None /\ now[c] >= token[1].expiry
                                  THEN id ELSE 0]
    /\ UNCHANGED <<clock, load, now, req, loaderCalls, calls, loadsEnded>>
    /\ UNCHANGED connVars

\* add_token handing the cache the reading less the refresh buffer.
AddTokenYieldEarly(c) == AddTokenYieldAt(c, now[c] - TOKEN_REFRESH_BUFFER)

\* add_token handing the cache the reading plus the refresh buffer.
AddTokenYieldLate(c) == AddTokenYieldAt(c, now[c] + TOKEN_REFRESH_BUFFER)

\* Line 102 hands the cache the reading of the time source.
AddTokenYield(c) == AddTokenYieldAt(c, now[c])

\* add_token calling get_token itself on a miss, not through get_or_load: a
\* loader is started whether or not one is in flight.
AddTokenLoadDirect(c) ==
    /\ pc[c] = "get_or_load"
    /\ pc' = [pc EXCEPT ![c] = "waiting"]
    /\ loaderCalls' = loaderCalls + 1
    /\ load' = Some([id |-> loaderCalls + 1, owner |-> c,
                     waiters |-> {c}, resp |-> None])
    /\ h' = [h EXCEPT ![c].started = @ + 1, ![c].callsAtEntry = loaderCalls]
    /\ UNCHANGED <<clock, token, now, req, res, calls, loadsEnded, issued>>
    /\ UNCHANGED connVars

\* The None arm: self.token.get_or_load(|| self.get_token()).  On "start"
\* the loader runs: get_token builds the PUT and hands it to the client.
AddTokenGetOrLoad(c) ==
    /\ pc[c] = "get_or_load"
    /\ LET entry == get_or_load(token, load)
           entered == [h[c] EXCEPT !.callsAtEntry =
                         IF h[c].dropped THEN @ ELSE loaderCalls]
       IN  CASE entry = "hit" ->
                  /\ pc' = [pc EXCEPT ![c] = "done"]
                  /\ res' = [res EXCEPT ![c] =
                               Some(add_token_result(req[c], Ok(token[1].token)))]
                  /\ h' = [h EXCEPT ![c] =
                             [entered EXCEPT !.src = "cached",
                                             !.got = Some(token[1].token),
                                             !.loadId = issued[1].id]]
                  /\ UNCHANGED <<load, loaderCalls>>
             [] entry = "attach" ->
                  /\ pc' = [pc EXCEPT ![c] = "waiting"]
                  /\ load' = Some([load[1] EXCEPT !.waiters = @ \cup {c}])
                  /\ h' = [h EXCEPT ![c] = entered]
                  /\ UNCHANGED <<res, loaderCalls>>
             [] entry = "start" ->
                  /\ pc' = [pc EXCEPT ![c] = "waiting"]
                  /\ loaderCalls' = loaderCalls + 1
                  /\ load' = Some([id |-> loaderCalls + 1, owner |-> c,
                                   waiters |-> {c}, resp |-> None])
                  /\ h' = [h EXCEPT ![c] = [entered EXCEPT !.started = @ + 1]]
                  /\ res' = res
    /\ UNCHANGED <<clock, token, now, req, calls, loadsEnded, issued>>
    /\ UNCHANGED connVars

\* The transport answers the token PUT (or the connector fails).
TransportRespond(o) ==
    /\ load # None
    /\ load[1].resp = None
    /\ load' = Some([load[1] EXCEPT !.resp = Some(o)])
    /\ UNCHANGED <<clock, token, pc, now, req, res, loaderCalls, calls,
                   loadsEnded, issued, h>>
    /\ UNCHANGED connVars

\* GetTokenComplete with the result handed to the callers and nothing stored.
GetTokenDeliverOnly ==
    /\ load # None
    /\ load[1].resp # None
    /\ LET l == load[1]
           r == get_token(l.resp[1], clock)
           tr == get_or_load_returns(token, r).ret
       IN  /\ ~IsPanic(r)
           /\ issued' = IF r.ok
                        THEN Some([id |-> l.id, at |-> clock,
                                   ttl |-> DeclaredTtl(l.resp[1]),
                                   body |-> l.resp[1].body])
                        ELSE issued
           /\ pc' = [c \in Callers |-> IF c \in l.waiters THEN "done" ELSE pc[c]]
           /\ res' = [c \in Callers |->
                        IF c \in l.waiters
                        THEN Some(add_token_result(req[c], tr))
                        ELSE res[c]]
           /\ h' = [c \in Callers |->
                      IF c \in l.waiters
                      THEN [h[c] EXCEPT !.src = "load", !.loadId = l.id,
                                        !.got = tr.val]
                      ELSE h[c]]
    /\ load' = None
    /\ loadsEnded' = loadsEnded + 1
    /\ UNCHANGED <<clock, token, now, req, loaderCalls, calls>>
    /\ UNCHANGED connVars

\* client.call returns: the response is parsed at the current clock reading,
\* get_token returns, the cache stores a success, and every caller attached
\* to the load gets the result and finishes add_token.
GetTokenComplete ==
    /\ load # None
    /\ load[1].resp # None
    /\ LET l == load[1]
           r == get_token(l.resp[1], clock)
           g == get_or_load_returns(token, r)
           tr == g.ret
       IN  /\ ~IsPanic(r)
           /\ token' = g.slot
           /\ issued' = IF r.ok
                        THEN Some([id |-> l.id, at |-> clock,
                                   ttl |-> DeclaredTtl(l.resp[1]),
                                   body |-> l.resp[1].body])
                        ELSE issued
           /\ pc' = [c \in Callers |-> IF c \in l.waiters THEN "done" ELSE pc[c]]
           /\ res' = [c \in Callers |->
                        IF c \in l.waiters
                        THEN Some(add_token_result(req[c], tr))
                        ELSE res[c]]
           /\ h' = [c \in Callers |->
                      IF c \in l.waiters
                      THEN [h[c] EXCEPT !.src = "load", !.loadId = l.id,
                                        !.got = tr.val]
                      ELSE h[c]]
    /\ load' = None
    /\ loadsEnded' = loadsEnded + 1
    /\ UNCHANGED <<clock, now, req, loaderCalls, calls>>
    /\ UNCHANGED connVars

\* parse panics inside client.call: the panic unwinds through the future of
\* the caller that started the load, which is dropped with the load it owns;
\* nothing is stored and the callers that waited on it go back to get_or_load.
GetTokenPanics ==
    /\ load # None
    /\ load[1].resp # None
    /\ IsPanic(get_token(load[1].resp[1], clock))
    /\ pc' = [d \in Callers |->
                IF d = load[1].owner THEN "panicked"
                ELSE IF d \in load[1].waiters THEN "get_or_load"
                ELSE pc[d]]
    /\ h' = [d \in Callers |->
               IF d \in load[1].waiters \ {load[1].owner}
               THEN [h[d] EXCEPT !.dropped = TRUE]
               ELSE h[d]]
    /\ load' = None
    /\ loadsEnded' = loadsEnded + 1
    /\ UNCHANGED <<clock, token, now, req, res, loaderCalls, calls, issued>>
    /\ UNCHANGED connVars

\* Cancel with the load of the dropped caller left marked as in flight.
CancelLeavesLoad(c) ==
    /\ Active(c)
    /\ pc' = [pc EXCEPT ![c] = "cancelled"]
    /\ load' = IF pc[c] # "waiting" THEN load
               ELSE Some([load[1] EXCEPT !.waiters = @ \ {c}])
    /\ UNCHANGED <<clock, token, now, req, res, loaderCalls, calls, issued,
                   loadsEnded, h>>
    /\ UNCHANGED connVars

\* The future returned by apply is dropped before it finished.  It owns the
\* middleware clone the loader future borrows, so a load this caller started
\* is dropped with it; the callers that waited on it go back to get_or_load.
Cancel(c) ==
    /\ Active(c)
    /\ LET owns == pc[c] = "waiting" /\ load[1].owner = c
           orphans == IF owns THEN load[1].waiters \ {c} ELSE {}
       IN  /\ pc' = [d \in Callers |->
                       IF d = c THEN "cancelled"
                       ELSE IF d \in orphans THEN "get_or_load"
                       ELSE pc[d]]
           /\ h' = [d \in Callers |->
                      IF d \in orphans THEN [h[d] EXCEPT !.dropped = TRUE]
                      ELSE h[d]]
           /\ load' = IF pc[c] # "waiting" THEN load
                      ELSE IF owns THEN None
                      ELSE Some([load[1] EXCEPT !.waiters = @ \ {c}])
           /\ loadsEnded' = IF owns THEN loadsEnded + 1 ELSE loadsEnded
    /\ UNCHANGED <<clock, token, now, req, res, loaderCalls, calls, issued>>
    /\ UNCHANGED connVars

Next ==
    \/ Tick
    \/ \E c \in Callers, r \in AppliedRequests : apply(c, r)
    \/ \E c \in Callers : AddTokenYield(c)
    \/ \E c \in Callers : AddTokenGetOrLoad(c)
    \/ \E o \in PutOutcomes : TransportRespond(o)
    \/ GetTokenComplete
    \/ \E c \in Callers : Cancel(c)

Spec == Init /\ [][Next]_vars

\* A token response whose TTL header is the largest u64.
OverflowingTtl == Response(200, <<97>>, Some(U64_MAX))

\* The concurrent callers, with the response of the overflowing TTL among the
\* outcomes of the transport.
NextFair ==
    \/ Tick
    \/ \E c \in Callers, r \in AppliedRequests : apply(c, r)
    \/ \E c \in Callers : AddTokenYield(c)
    \/ \E c \in Callers : AddTokenGetOrLoad(c)
    \/ \E o \in PutOutcomes \cup {OverflowingTtl} : TransportRespond(o)
    \/ GetTokenComplete
    \/ GetTokenPanics
    \/ \E c \in Callers : Cancel(c)

\* The executor keeps polling a future that can make progress, and the
\* transport answers or fails every token PUT.  Nothing obliges a caller to
\* call again, the clock to advance, or a future to be dropped.
Fairness ==
    /\ \A c \in Callers : WF_vars(AddTokenYield(c))
    /\ \A c \in Callers : WF_vars(AddTokenGetOrLoad(c))
    /\ WF_vars(\E o \in PutOutcomes \cup {OverflowingTtl} : TransportRespond(o))
    /\ WF_vars(GetTokenComplete)
    /\ WF_vars(GetTokenPanics)

FairSpec == Init /\ [][NextFair]_vars /\ Fairness

\* One caller making its calls one after the other, over every request of
\* Requests and every outcome of Outcomes.
NextSeq ==
    \/ Tick
    \/ \E r \in Requests : apply(1, r)
    \/ AddTokenYield(1)
    \/ AddTokenGetOrLoad(1)
    \/ \E o \in Outcomes : TransportRespond(o)
    \/ GetTokenComplete
    \/ GetTokenPanics

SpecSeq == Init /\ [][NextSeq]_vars

\* ------------------------------------- tower::Service::call (TestConnection)
\* call on clone k, up to the pop with the lock on data taken and the guard
\* dropped again at once.
ConnCallUnlocked(k, actual) ==
    /\ inCall[k] = None
    /\ guard = 0
    /\ Len(log) + Cardinality({j \in Clones : inCall[j] # None}) < MaxConnCalls
    /\ IF Len(data) > 0
       THEN /\ data' = SubSeq(data, 1, Len(data) - 1)
            /\ inCall' = [inCall EXCEPT ![k] =
                            Some([actual |-> actual,
                                  popped |-> Some(data[Len(data)])])]
       ELSE /\ data' = data
            /\ inCall' = [inCall EXCEPT ![k] =
                            Some([actual |-> actual, popped |-> None])]
    /\ UNCHANGED <<guard, requests, events, log>>
    /\ UNCHANGED tokenVars

\* call on clone k, up to the pop: self.data.lock().unwrap().pop().  The
\* guard is a temporary of the `if let` and lives to the end of it.
ConnCall(k, actual) ==
    /\ inCall[k] = None
    /\ guard = 0
    /\ Len(log) + Cardinality({j \in Clones : inCall[j] # None}) < MaxConnCalls
    /\ guard' = k
    /\ IF Len(data) > 0
       THEN /\ data' = SubSeq(data, 1, Len(data) - 1)
            /\ inCall' = [inCall EXCEPT ![k] =
                            Some([actual |-> actual,
                                  popped |-> Some(data[Len(data)])])]
       ELSE /\ data' = data
            /\ inCall' = [inCall EXCEPT ![k] =
                            Some([actual |-> actual, popped |-> None])]
    /\ UNCHANGED <<requests, events, log>>
    /\ UNCHANGED tokenVars

\* The rest of call: with a pair popped the ValidateRequest is pushed and the
\* response returned, without one the error is returned; the guard is
\* dropped.
ConnReturn(k) ==
    /\ inCall[k] # None
    /\ LET c == inCall[k][1]
       IN  IF c.popped # None
           THEN /\ requests' = Append(requests,
                                      [actual |-> c.actual,
                                       expected |-> c.popped[1][1]])
                /\ log' = Append(log, [clone |-> k, actual |-> c.actual,
                                       ret |-> Ok(c.popped[1][2])])
           ELSE /\ requests' = requests
                /\ log' = Append(log, [clone |-> k, actual |-> c.actual,
                                       ret |-> Err("No more data")])
    /\ guard' = 0
    /\ inCall' = [inCall EXCEPT ![k] = None]
    /\ UNCHANGED <<data, events>>
    /\ UNCHANGED tokenVars

InitConn == InitToken /\ \E v \in ConnectVecs : TestConnectionNew(v)

NextConn ==
    \/ \E k \in Clones, actual \in Requests : ConnCall(k, actual)
    \/ \E k \in Clones : ConnReturn(k)

SpecConn == InitConn /\ [][NextConn]_vars

TypeOK ==
    /\ clock \in 0..(MaxTime + TickSeconds)
    /\ Len(token) <= 1
    /\ Len(load) <= 1
    /\ pc \in [Callers -> {"idle", "yield", "get_or_load", "waiting", "done", "cancelled",
                          "panicked"}]

\* ------------------------------------------------------------------ claims
Done(c) == pc[c] = "done"

Succeeded(c) == Done(c) /\ res[c][1].ok

Failed(c) == Done(c) /\ ~res[c][1].ok

\* Caller c takes the step that calls yield_or_clear_if_expired.
YieldStep(c) == pc[c] = "yield" /\ pc'[c] \notin {"yield", "cancelled"}

\* The load in flight returns to its owner (it is not dropped).
LoadReturns ==
    /\ load # None
    /\ load' = None
    /\ pc[load[1].owner] = "waiting"
    /\ pc'[load[1].owner] = "done"

\* The loader invocations made while c was inside get_or_load are the one it
\* started itself, or none when it attached to the load already in flight.
OneLoaderFor(c) ==
    ~h[c].dropped => loaderCalls - h[c].callsAtEntry = h[c].started

\* C1: when a load succeeds (the slot goes from empty to filled), every caller
\* that is inside get_or_load at that moment returns the request augmented
\* with the one token just stored, no further loader is invoked, and for each
\* of them whose load was not dropped the loader ran exactly once.
C1_SingleFlightSuccess ==
    [][ (token = None /\ token' # None) =>
          /\ loaderCalls' = loaderCalls
          /\ \A c \in Callers :
                pc[c] = "waiting" =>
                   /\ pc'[c] = "done"
                   /\ res'[c] = Some(Ok(augment(req[c], token'[1].token.value)))
                   /\ OneLoaderFor(c) ]_vars

C1_Witness ==
    \E c, d \in Callers :
        /\ c # d
        /\ Succeeded(c) /\ Succeeded(d)
        /\ h[c].src = "load" /\ h[d].src = "load"
        /\ h[c].loadId = h[d].loadId
        /\ h[c].got = h[d].got
        /\ loaderCalls = 1

\* C2: in every reachable state the loader invocations that have neither
\* returned nor been dropped number at most one, that one is the load the
\* cache records, and every caller suspended in get_or_load is attached to it.
C2_AtMostOneLoadInFlight ==
    /\ loaderCalls - loadsEnded = (IF load = None THEN 0 ELSE 1)
    /\ \A c \in Callers :
          pc[c] = "waiting" => (load # None /\ c \in load[1].waiters)
    /\ load # None =>
          /\ load[1].owner \in load[1].waiters
          /\ \A c \in load[1].waiters : pc[c] = "waiting"
          /\ token = None

C2_Witness ==
    /\ load # None
    /\ Cardinality(load[1].waiters) = 2
    /\ load[1].resp # None

\* C3: when the load in flight returns a failure, every caller attached to it
\* finishes with that same error, none of them is left to load again, the
\* loader was invoked once for them, and the cache is empty with no load in
\* flight.
C3_FailureBroadcast ==
    [][ (LoadReturns /\ token' = None) =>
          /\ loaderCalls' = loaderCalls
          /\ ~res'[load[1].owner][1].ok
          /\ \A c \in Callers :
                pc[c] = "waiting" =>
                   /\ pc'[c] = "done"
                   /\ res'[c] = res'[load[1].owner]
                   /\ OneLoaderFor(c) ]_vars

C3_Witness ==
    \E c, d \in Callers :
        /\ c # d
        /\ Failed(c) /\ Failed(d)
        /\ h[c].src = "load" /\ h[d].src = "load"
        /\ h[c].loadId = h[d].loadId
        /\ res[c] = res[d]
        /\ token = None
        /\ loaderCalls = 1

\* A transport outcome that is a failed load whatever else it holds: the
\* connector failed, the status is 400 or 403, the body holds a line feed,
\* or the TTL header is missing, "x" or a non-ASCII byte.
FailedOutcome(o) ==
    \/ o = DispatchFailure
    \/ o.status \in {400, 403}
    \/ o.body = <<10>>
    \/ o.ttl \in {None, Some(<<120>>), Some(<<200>>)}

\* C4: a load that returns on a failed outcome leaves the cache empty and its
\* caller with an error, and a caller that enters get_or_load on an empty
\* cache with no load in flight invokes the loader (a fresh PUT).
C4_NoNegativeCaching ==
    [][ /\ (LoadReturns /\ load[1].resp # None /\ FailedOutcome(load[1].resp[1])) =>
              (token' = None /\ ~res'[load[1].owner][1].ok)
        /\ \A c \in Callers :
              (pc[c] = "get_or_load" /\ pc'[c] \notin {"get_or_load", "cancelled"}
                 /\ token = None /\ load = None) =>
                 /\ pc'[c] = "waiting"
                 /\ loaderCalls' = loaderCalls + 1
                 /\ load' # None /\ load'[1].owner = c /\ load'[1].resp = None ]_vars

C4_Witness ==
    \E c, d \in Callers :
        /\ Failed(c) /\ h[c].src = "load"
        /\ token = None
        /\ load # None /\ load[1].owner = d /\ load[1].id = h[c].loadId + 1
        /\ h[d].callsAtEntry = h[c].loadId

\* C5: a call of yield_or_clear_if_expired with now at or past the stored
\* value's expiry returns None and empties the slot, and the slot is filled
\* again only by a load that returns a success.
C5_HardExpiry ==
    [][ /\ \A c \in Callers :
              (YieldStep(c) /\ token # None /\ now[c] >= token[1].expiry) =>
                 (token' = None /\ pc'[c] = "get_or_load" /\ res'[c] = None)
        /\ (token = None /\ token' # None) =>
              (LoadReturns /\ load[1].resp # None
                 /\ ~FailedOutcome(load[1].resp[1])) ]_vars

C5_Witness ==
    \E c \in Callers :
        /\ pc[c] = "get_or_load"
        /\ h[c].expiredId > 0
        /\ token = None

C8_RefreshAfterExpiry ==
    \A c \in Callers :
        (Succeeded(c) /\ h[c].expiredId > 0) =>
           /\ h[c].src \in {"load", "cached"}
           /\ h[c].loadId > h[c].expiredId
           /\ h[c].loadId <= loadsEnded
           /\ ~h[c].overlap =>
                 /\ h[c].src = "load"
                 /\ h[c].started = 1
                 /\ h[c].loadId = h[c].callsAtEntry + 1

C8_Witness ==
    \E c \in Callers :
        /\ Succeeded(c)
        /\ h[c].expiredId > 0
        /\ ~h[c].overlap
        /\ h[c].loadId = h[c].expiredId + 1

\* C9: when the caller that started the load in flight is cancelled while
\* another caller waits on it, that load stays in flight for the others and
\* no loader is invoked in its place.
C9_CancellationIsolation ==
    [][ \A c \in Callers :
           (pc[c] = "waiting" /\ pc'[c] = "cancelled"
              /\ load[1].owner = c /\ load[1].waiters # {c}) =>
              /\ load' # None
              /\ load'[1].id = load[1].id
              /\ load'[1].waiters = load[1].waiters \ {c}
              /\ loaderCalls' = loaderCalls ]_vars

\* C10: a finished call holds an error, or a request whose token header is
\* the token it obtained; it holds an error exactly when it obtained none; a
\* token from yield_or_clear_if_expired expires after the call's clock
\* reading, and a token found by get_or_load was stored by a load that
\* returned after the call had asked yield_or_clear_if_expired.
C10_NoMissingOrStaleToken ==
    \A c \in Callers :
        Done(c) =>
           /\ res[c] # None
           /\ res[c][1].ok <=> h[c].got # None
           /\ res[c][1].ok =>
                 res[c][1].val[1].headers[X_AWS_EC2_METADATA_TOKEN]
                    = Some(h[c].got[1].value)
           /\ ~res[c][1].ok => res[c][1].err[1].kind = "FailedToLoadToken"
           /\ h[c].src = "yield" =>
                 (res[c][1].ok /\ h[c].got[1].expiry > now[c])
           /\ h[c].src = "cached" => h[c].loadId > h[c].endedAtYield

C10_Witness ==
    \E c, d \in Callers :
        /\ Succeeded(c) /\ h[c].src = "load"
        /\ Succeeded(d) /\ h[d].src = "cached"
        /\ h[d].got = h[c].got

\* C11: a call that succeeds returns the request it was given with the token
\* header set to the token value, whatever stood under that name before, and
\* the method, URI, body and every other header as they were; a call that
\* fails returns no request.
C11_AugmentationFrame ==
    \A c \in Callers :
        Done(c) =>
           IF res[c][1].ok
           THEN LET out == res[c][1].val[1]
                IN  /\ out.method = req[c].method
                    /\ out.uri = req[c].uri
                    /\ out.body = req[c].body
                    /\ \A n \in HeaderNames \ {X_AWS_EC2_METADATA_TOKEN} :
                          out.headers[n] = req[c].headers[n]
                    /\ out.headers[X_AWS_EC2_METADATA_TOKEN]
                          = Some(h[c].got[1].value)
           ELSE res[c][1].val = None

C11_Witness ==
    \E c \in Callers :
        /\ Succeeded(c)
        /\ req[c].headers[X_AWS_EC2_METADATA_TOKEN] = Some(<<111>>)
        /\ req[c].headers["user-agent"] = Some(<<117>>)
        /\ res[c][1].val[1].headers[X_AWS_EC2_METADATA_TOKEN] = Some(<<97>>)
        /\ res[c][1].val[1].headers["user-agent"] = Some(<<117>>)

\* A non-negative integer number of seconds, as a header value: decimal
\* digits, with or without a '+' in front.
IsNonNegativeInteger(bytes) ==
    LET d == IF Len(bytes) > 0 /\ bytes[1] = 43 THEN Tail(bytes) ELSE bytes
    IN  Len(d) > 0 /\ \A i \in 1..Len(d) : IsDigit(d[i])

\* The class the decision list gives a response.
DecisionList(o) ==
    IF o.status = 400 THEN "InvalidParameters"
    ELSE IF o.status = 403 THEN "Forbidden"
    ELSE IF ~IsValidHeaderValue(o.body) THEN "InvalidToken"
    ELSE IF o.ttl = None THEN "NoTtl"
    ELSE IF ~IsNonNegativeInteger(o.ttl[1]) THEN "InvalidTtl"
    ELSE "Token"

\* C12: every response to the token PUT is classified by the decision list:
\* 400 is InvalidParameters, 403 is Forbidden, otherwise an invalid body is
\* InvalidToken, otherwise a missing TTL header is NoTtl, otherwise a TTL that
\* is not a non-negative integer is InvalidTtl, otherwise the call gets a
\* token whose value is the body.
C12_ParseDecisionList ==
    [][ \A c \in Callers :
          ( /\ pc[c] = "waiting"
            /\ load # None
            /\ load[1].owner = c
            /\ load[1].resp # None
            /\ load[1].resp[1] \in Responses
            /\ load' = None
            /\ pc'[c] # "cancelled" )
          => LET e == DecisionList(load[1].resp[1])
             IN  /\ pc'[c] = "done"
                 /\ IF e = "Token"
                    THEN /\ res'[c][1].ok
                         /\ h'[c].got[1].value = load[1].resp[1].body
                    ELSE /\ ~res'[c][1].ok
                         /\ res'[c][1].err[1].source = e ]_vars

\* C13: a call that returns an augmented request carries, under the token
\* header, the body of the response the token in use was parsed from, byte for
\* byte, and the expiry of that token is the clock reading at the parse plus
\* the TTL the response declared.
C13_HeaderRoundTrip ==
    [][ \A c \in Callers :
          (pc[c] # "done" /\ pc'[c] = "done" /\ res'[c][1].ok)
          => /\ issued' # None
             /\ res'[c][1].val[1].headers[X_AWS_EC2_METADATA_TOKEN]
                   = Some(issued'[1].body)
             /\ h'[c].got[1].value = issued'[1].body
             /\ h'[c].got[1].expiry = issued'[1].at + issued'[1].ttl ]_vars

C13_Witness ==
    \E c \in Callers :
        /\ Succeeded(c)
        /\ h[c].src = "yield"
        /\ issued # None
        /\ issued[1].at = TickSeconds
        /\ issued[1].ttl = 180
        /\ issued[1].body = <<98>>
        /\ h[c].got[1].expiry = TickSeconds + 180
        /\ res[c][1].val[1].headers[X_AWS_EC2_METADATA_TOKEN] = Some(<<98>>)

TokenErrors ==
    {"InvalidParameters", "Forbidden", "NoTtl", "InvalidTtl", "InvalidToken"}

\* The response of the load in flight is one parse turns into a TokenError.
ClassifiedAsTokenError ==
    /\ load # None
    /\ load[1].resp # None
    /\ load[1].resp[1] \in Responses
    /\ ~parse(load[1].resp[1], clock).ok
    /\ ~IsPanic(parse(load[1].resp[1], clock))

C15_ReplayInOrder ==
    /\ \A k \in 1..Len(log) :
          IF k <= Len(events)
          THEN /\ log[k].ret = Ok(events[k][2])
               /\ k <= Len(requests)
               /\ requests[k] = [actual |-> log[k].actual,
                                 expected |-> events[k][1]]
          ELSE log[k].ret = Err("No more data")
    /\ Len(requests) <= Len(events)
    /\ Len(requests) = Len(events) - Len(data)
                          - Cardinality({j \in Clones : inCall[j] # None
                                           /\ inCall[j][1].popped # None})

C15_Witness ==
    /\ Len(events) = 2
    /\ events[1] # events[2]
    /\ Len(log) = 3
    /\ log[1].clone # log[2].clone
    /\ log[1].ret # log[2].ret
    /\ log[3].ret = Err("No more data")
    /\ Len(requests) = 2
    /\ requests[1].actual # requests[1].expected

\* C16: at the step in which a caller, the one that started the load or one
\* that waited on it, gets a token from a load, the slot holds the pair of
\* that load: the value handed out, with the expiry of the same load; and in
\* every state the slot is empty or holds a value together with the expiry of
\* the load that produced that value.
C16_StoreBeforeDeliver ==
    /\ [][ \A c \in Callers :
             (pc[c] = "waiting" /\ pc'[c] = "done" /\ res'[c][1].ok)
             => /\ token' # None
                /\ token'[1].token = h'[c].got[1]
                /\ issued'[1].id = load[1].id
                /\ token'[1].token.value = issued'[1].body
                /\ token'[1].expiry = issued'[1].at + issued'[1].ttl ]_vars
    /\ [](token # None =>
            /\ issued # None
            /\ DOMAIN token[1] = {"token", "expiry"}
            /\ token[1].token.value = issued[1].body
            /\ token[1].expiry = issued[1].at + issued[1].ttl)

C16_Witness ==
    \E c, d \in Callers :
        /\ c # d
        /\ Succeeded(c) /\ Succeeded(d)
        /\ h[c].src = "load" /\ h[d].src = "load"
        /\ h[c].loadId = 1 /\ h[d].loadId = 1
        /\ token # None
        /\ token[1].token = h[c].got[1]
        /\ token[1].token = h[d].got[1]
        /\ token[1].expiry = TickSeconds + 180

\* C17: when the only caller attached to the load in flight is cancelled, the
\* slot is empty and no load is in flight afterwards; and a call that enters
\* get_or_load after a cancellation, with the slot empty and no load in
\* flight, starts a load of its own instead of waiting.
C17_SoleWaiterCancel ==
    [][ \A c \in Callers :
          /\ (pc[c] = "waiting" /\ load[1].waiters = {c} /\ pc'[c] = "cancelled")
             => (token' = None /\ load' = None)
          /\ (pc[c] = "get_or_load" /\ pc'[c] \notin {"get_or_load", "cancelled"}
                /\ token = None /\ load = None
                /\ \E d \in Callers : pc[d] = "cancelled")
             => /\ pc'[c] = "waiting"
                /\ load' # None
                /\ load'[1].owner = c
                /\ load'[1].id = loaderCalls + 1
                /\ load'[1].resp = None ]_vars

\* The call after the abandoned load got a token from a load of its own.
C17_Witness ==
    \E c, d \in Callers :
        /\ c # d
        /\ pc[c] = "cancelled"
        /\ h[c].started = 1
        /\ loadsEnded = 2
        /\ Succeeded(d)
        /\ h[d].src = "load"
        /\ h[d].loadId = 2
        /\ ~h[d].overlap
        /\ ~h[d].dropped

\* C18: a call that is inside add_token and is not cancelled eventually
\* returns, with a request or with an error.
C18_WaiterLiveness ==
    \A c \in Callers :
        Active(c) ~> (Done(c) \/ pc[c] = "cancelled")

\* What holds in its place: a call inside add_token always comes to an end,
\* by returning, by being cancelled, or by the panic of parse; no caller stays
\* suspended.
WaitersReleased ==
    \A c \in Callers : Active(c) ~> ~Active(c)

\* The response of the load in flight is a good one declaring a TTL of 0.
ZeroTtlResponse ==
    /\ load # None
    /\ load[1].resp # None
    /\ load[1].resp[1].status \notin {400, 403}
    /\ IsValidHeaderValue(load[1].resp[1].body)
    /\ load[1].resp[1].ttl = Some(<<48>>)

\* C19: a load answered with a TTL of 0 succeeds: its caller returns the
\* request carrying the token, which is stored with the clock reading of the
\* parse as its expiry.  A call that reads the clock at or after that moment
\* does not get the token from yield_or_clear_if_expired, which empties the
\* slot, and with no load in flight it sends a new PUT.
C19_ZeroTtlSoftSuccess ==
    [][ \A c \in Callers :
          /\ (pc[c] = "waiting" /\ pc'[c] = "done" /\ ZeroTtlResponse)
             => /\ res'[c][1].ok
                /\ res'[c][1].val[1].headers[X_AWS_EC2_METADATA_TOKEN]
                      = Some(load[1].resp[1].body)
                /\ token' # None
                /\ token'[1].expiry = clock
          /\ (YieldStep(c) /\ token # None /\ issued[1].ttl = 0
                /\ now[c] >= issued[1].at)
             => /\ token' = None
                /\ res'[c] = None
                /\ pc'[c] = "get_or_load"
                /\ h'[c].expiredId = issued[1].id
          /\ (pc[c] = "get_or_load" /\ pc'[c] \notin {"get_or_load", "cancelled"}
                /\ h[c].expiredId > 0 /\ token = None /\ load = None)
             => /\ loaderCalls' = loaderCalls + 1
                /\ load' # None /\ load'[1].owner = c /\ load'[1].resp = None
      ]_vars

\* The second call read the clock at 0 and found the token of load 1 expired:
\* that token was stored at 0 with a TTL of 0.
C19_Witness ==
    \E c \in Callers :
        /\ now[c] = 0
        /\ h[c].expiredId = 1
        /\ pc[c] = "waiting"
        /\ load # None
        /\ load[1].id = 2
        /\ load[1].owner = c
        /\ token = None

\* C20: whenever the slot holds a value, the expiry the cache decides by is
\* the expiry field of the stored Token, and it is the clock reading at the
\* parse of the response plus the TTL that response declared.
C20_ExpiryConsistency ==
    token # None =>
        /\ token[1].expiry = token[1].token.expiry
        /\ issued # None
        /\ token[1].token.expiry = issued[1].at + issued[1].ttl

\* A token parsed one tick after its call read the clock, with a TTL that is
\* not the one asked for.
C20_Witness ==
    \E c \in Callers :
        /\ Succeeded(c)
        /\ h[c].src = "load"
        /\ now[c] = 0
        /\ token # None
        /\ issued[1].id = h[c].loadId
        /\ issued[1].at = TickSeconds
        /\ issued[1].ttl = 60
        /\ issued[1].ttl # token_ttl
        /\ token[1].expiry = TickSeconds + 60

====
